---- MODULE Spec2Model ----
(***************************************************************************)
(* The email-capture form of the Career Launch landing page:               *)
(*   FormValidator   (validation module, src/unnamed/part_002:6-212)       *)
(*   CareerLaunchApp (submission controller, src/js/main.js:6-430)         *)
(*   HeroSlider      (portrait slider, src/unnamed/part_001:10-183)         *)
(* Strings are TLA+ strings; Len, SubSeq and \o act on them character by  *)
(* character, so trimming, lower-casing, the email pattern and the        *)
(* keyword search are computed on the text itself.                        *)
(* Time is not measured.  A timer set with setTimeout is pending, with the *)
(* delay it was set with, until its callback runs; the callback runs at   *)
(* some later step (never before the delay has passed, at any time after  *)
(* it), and timers set with the same delay run in the order they were set.*)
(***************************************************************************)
EXTENDS Integers, Sequences, FiniteSets, TLC

VARIABLES
    authToken,     \* zohoConfig.authToken, read once at construction
    isSubmitting,  \* CareerLaunchApp.isSubmitting
    retryCount,    \* CareerLaunchApp.retryCount
    handlers,      \* the running invocations of handleFormSubmit (async frames)
    inputValue,    \* #email .value
    inputInvalid,  \* #email carries class 'invalid'
    ariaInvalid,   \* #email aria-invalid attribute ("none" when absent)
    focused,       \* #email is the active element
    errorText,     \* #email-error .textContent (display is 'block' iff non-empty)
    debounce,      \* the delays (ms) of the pending validation timers, oldest first
    btnLoading,    \* .cta-button carries class 'loading'
    btnDisabled,   \* .cta-button .disabled
    ariaBusy,      \* .cta-button aria-busy attribute ("none" when absent)
    btnLabel,      \* .button-text .textContent
    msgClass,      \* #form-messages classes besides 'form-messages'
    msgText,       \* #form-messages .textContent
    hideTimers,    \* the number of pending success auto-hide timers
    focusTimers,   \* the number of pending refocus timers
    fetchCalls,    \* history: has fetch() ever been called
    lastOutcome,   \* history: how the previous accepted submission ended
    lastEvent,     \* history: the handler that ran last and what it saw
    arg,           \* the value a caller passes to a method of the exported FormValidator
    ret,           \* what the last such call returned or threw
    heroSlider,    \* HeroSlider: currentSlide, totalSlides, interval, isPaused
    slides,        \* .slide elements: class 'active' and aria-hidden, by index
    indicators,    \* .indicator elements: class 'active', by index
    startTimer,    \* the 2 s start-up timer of HeroSlider.init is pending
    intervals,     \* the handles of the running setInterval timers
    hoverListeners,\* the listeners registered on .hero-portraits
    pointerInside, \* the mouse pointer is over .hero-portraits
    destroyed,     \* history: HeroSlider.destroy has been called
    sliderEvent    \* history: the slider operation that ran last

vars == <<authToken, isSubmitting, retryCount, handlers, inputValue, inputInvalid,
          ariaInvalid, focused, errorText, debounce, btnLoading, btnDisabled,
          ariaBusy, btnLabel, msgClass, msgText, hideTimers, focusTimers,
          fetchCalls, lastOutcome, lastEvent, arg, ret, heroSlider, slides,
          indicators, startTimer, intervals, hoverListeners, pointerInside,
          destroyed, sliderEvent>>

SliderVars ==
    <<heroSlider, slides, indicators, startTimer, intervals, hoverListeners,
      pointerInside, destroyed, sliderEvent>>

-----------------------------------------------------------------------------
(* Text helpers: String.prototype.trim, toLowerCase, includes, split       *)

NoTimer == -1

Whitespace == {" ", "\t", "\n", "\r", "\f"}

UpperChars == "ABCDEFGHIJKLMNOPQRSTUVWXYZ"
LowerChars == "abcdefghijklmnopqrstuvwxyz"

CharAt(s, i) == SubSeq(s, i, i)

LowerChar(c) ==
    IF \E i \in 1..Len(UpperChars) : CharAt(UpperChars, i) = c
    THEN CharAt(LowerChars, CHOOSE i \in 1..Len(UpperChars) : CharAt(UpperChars, i) = c)
    ELSE c

\* character by character, the text split in halves
RECURSIVE toLowerCase(_)
toLowerCase(s) ==
    IF Len(s) <= 1 THEN LowerChar(s)
    ELSE toLowerCase(SubSeq(s, 1, Len(s) \div 2))
             \o toLowerCase(SubSeq(s, Len(s) \div 2 + 1, Len(s)))

\* the positions of s that do not hold whitespace
Inked(s) == {i \in 1..Len(s) : CharAt(s, i) \notin Whitespace}

trimStart(s) ==
    IF Inked(s) = {} THEN ""
    ELSE SubSeq(s, CHOOSE i \in Inked(s) : \A j \in Inked(s) : i <= j, Len(s))

trimEnd(s) ==
    IF Inked(s) = {} THEN ""
    ELSE SubSeq(s, 1, CHOOSE i \in Inked(s) : \A j \in Inked(s) : j <= i)

trim(s) == trimEnd(trimStart(s))

includes(s, k) ==
    \E i \in 1..(Len(s) - Len(k) + 1) : SubSeq(s, i, i + Len(k) - 1) = k

\* s.split('@')[1]: the text between the first and the second '@'
upToAt(s) ==
    LET ats == {i \in 1..Len(s) : CharAt(s, i) = "@"}
    IN  IF ats = {} THEN s
        ELSE SubSeq(s, 1, (CHOOSE i \in ats : \A j \in ats : i <= j) - 1)

splitAt1(s) ==
    LET first == Len(upToAt(s)) + 1
    IN  upToAt(SubSeq(s, first + 1, Len(s)))

-----------------------------------------------------------------------------
(* FormValidator                                                           *)

messages ==
    [required     |-> "Email address is required",
     invalidEmail |-> "Please enter a valid email address",
     networkError |-> "Network error. Please check your connection and try again.",
     serverError  |-> "Something went wrong. Please try again later.",
     success      |-> "Thank you! We'll notify you as soon as the agenda is released."]

domainSpelling == "Please check your email domain spelling"

patternEmailNoDot(s) ==
    \E a \in 1..Len(s) :
        /\ CharAt(s, a) = "@"
        /\ 1 < a /\ a < Len(s)
        /\ \A j \in 1..Len(s) :
              /\ CharAt(s, j) \notin Whitespace
              /\ (j # a => CharAt(s, j) # "@")

\* /^[^\s@]+@[^\s@]+\.[^\s@]+$/
patternEmail(s) ==
    \E a \in 1..Len(s) : \E d \in 1..Len(s) :
        /\ CharAt(s, a) = "@"
        /\ CharAt(s, d) = "."
        /\ 1 < a /\ a + 1 < d /\ d < Len(s)
        /\ \A j \in 1..Len(s) :
              /\ CharAt(s, j) \notin Whitespace
              /\ (j # a => CharAt(s, j) # "@")

suspiciousDomains ==
    {"gmail.co", "gmail.cm", "gmai.com", "gmial.com", "yahoo.co", "yahoo.cm",
     "hotmail.co", "hotmail.cm", "outlook.co", "outlook.cm"}

validateEmailDenyFirst(email) ==
    IF email = "" \/ trim(email) = ""
    THEN [isValid |-> FALSE, message |-> messages.required, email |-> ""]
    ELSE LET normalizedEmail == toLowerCase(trim(email))
         IN  IF splitAt1(normalizedEmail) \in suspiciousDomains
             THEN [isValid |-> FALSE, message |-> domainSpelling, email |-> ""]
             ELSE IF ~patternEmail(normalizedEmail)
             THEN [isValid |-> FALSE, message |-> messages.invalidEmail, email |-> ""]
             ELSE [isValid |-> TRUE, message |-> "", email |-> normalizedEmail]

validateEmailBlankUnchecked(email) ==
    IF email = ""
    THEN [isValid |-> FALSE, message |-> messages.required, email |-> ""]
    ELSE LET normalizedEmail == toLowerCase(trim(email))
         IN  IF ~patternEmail(normalizedEmail)
             THEN [isValid |-> FALSE, message |-> messages.invalidEmail, email |-> ""]
             ELSE IF splitAt1(normalizedEmail) \in suspiciousDomains
             THEN [isValid |-> FALSE, message |-> domainSpelling, email |-> ""]
             ELSE [isValid |-> TRUE, message |-> "", email |-> normalizedEmail]

validateEmailKeepsCase(email) ==
    IF email = "" \/ trim(email) = ""
    THEN [isValid |-> FALSE, message |-> messages.required, email |-> ""]
    ELSE LET normalizedEmail == toLowerCase(trim(email))
         IN  IF ~patternEmail(normalizedEmail)
             THEN [isValid |-> FALSE, message |-> messages.invalidEmail, email |-> ""]
             ELSE IF splitAt1(normalizedEmail) \in suspiciousDomains
             THEN [isValid |-> FALSE, message |-> domainSpelling, email |-> ""]
             ELSE [isValid |-> TRUE, message |-> "", email |-> trim(email)]

\* the result object; email is "" when the code returns no email field
validateEmail(email) ==
    IF email = "" \/ trim(email) = ""
    THEN [isValid |-> FALSE, message |-> messages.required, email |-> ""]
    ELSE LET normalizedEmail == toLowerCase(trim(email))
         IN  IF ~patternEmail(normalizedEmail)
             THEN [isValid |-> FALSE, message |-> messages.invalidEmail, email |-> ""]
             ELSE IF splitAt1(normalizedEmail) \in suspiciousDomains
             THEN [isValid |-> FALSE, message |-> domainSpelling, email |-> ""]
             ELSE [isValid |-> TRUE, message |-> "", email |-> normalizedEmail]

\* the characters /[<>\"'&]/g removes
XssChars == {"<", ">", "\"", "'", "&"}

MaxEmailLen == 254

RECURSIVE removeXssChars(_)
removeXssChars(s) ==
    IF Len(s) <= 1 THEN (IF s \in XssChars THEN "" ELSE s)
    ELSE removeXssChars(SubSeq(s, 1, Len(s) \div 2))
             \o removeXssChars(SubSeq(s, Len(s) \div 2 + 1, Len(s)))

sanitizeEmailUncapped(email) == removeXssChars(toLowerCase(trim(email)))

\* sanitizeEmail of a string
sanitizeEmail(email) ==
    LET stripped == removeXssChars(toLowerCase(trim(email)))
    IN  SubSeq(stripped, 1, IF Len(stripped) < MaxEmailLen THEN Len(stripped)
                            ELSE MaxEmailLen)

\* A JavaScript value as the methods see it: its typeof, whether it is
\* truthy, and its text when it is a string
Value(type, truthy, str) == [type |-> type, truthy |-> truthy, str |-> str]

Str(s) == Value("string", s # "", s)

Undefined == Value("undefined", FALSE, "")

Null == Value("object", FALSE, "")

NonStrings ==
    {Undefined, Null, Value("number", FALSE, ""), Value("number", TRUE, ""),
     Value("boolean", FALSE, ""), Value("boolean", TRUE, ""), Value("object", TRUE, "")}

NoResult == [isValid |-> FALSE, message |-> "", email |-> ""]

\* the outcome of a call: the method, the exception that left it ("" when it
\* returned), the result object of validateEmail, the string of sanitizeEmail
Ret(method, threw, result, text) ==
    [method |-> method, threw |-> threw, result |-> result, text |-> text]

NoRet == Ret("none", "", NoResult, "")

\* validateEmail of any value: !email holds of a falsy value, and
\* email.trim is not a function when a truthy value is not a string
validateEmailOf(value) ==
    IF ~value.truthy
    THEN Ret("validateEmail", "",
             [isValid |-> FALSE, message |-> messages.required, email |-> ""], "")
    ELSE IF value.type # "string"
    THEN Ret("validateEmail", "TypeError", NoResult, "")
    ELSE Ret("validateEmail", "", validateEmail(value.str), "")

\* sanitizeEmail of any value: line 176
sanitizeEmailOf(value) ==
    IF value.type # "string" THEN Ret("sanitizeEmail", "", NoResult, "")
    ELSE Ret("sanitizeEmail", "", NoResult, sanitizeEmail(value.str))

eduDomains ==
    {".edu", ".ac.", ".edu.", "school", "college", "university", "board", "district"}

isEducationalEmail(email) ==
    \E k \in eduDomains : includes(toLowerCase(email), k)

eduSuccess ==
    "Thank you! We'll send the agenda details to your educational email address as soon as they're available."

getSuccessMessage(email) ==
    IF isEducationalEmail(email) THEN eduSuccess ELSE messages.success

\* the texts the user is let to type into the field
InputTexts == {"", "ab", "test@", "x@gmail.co", "a@b.io", " O'Tea@School.CA "}

\* the texts the field can hold when the page loads (a value the browser
\* restored or filled in): every string of at most MaxTextLen characters of
\* TextChars, and addresses around the deny-list
TextChars == {"A", "@", ".", " "}

MaxTextLen == 5

RECURSIVE StringsOfLen(_)
StringsOfLen(n) ==
    IF n = 0 THEN {""}
    ELSE {c \o t : c \in TextChars, t \in StringsOfLen(n - 1)}

DomainTexts ==
    {"x@gmail.co", "x@gmail.com", "x@gmail.co.uk", "X@GMAIL.CO ", "gmail.co",
     "@gmail.co", "x @gmail.co", "x@y@gmail.co", "x@gmail.co@z.io", "x@gmai.com",
     "a.b@outlook.cm", "x@sub.gmail.co", "x@gmail.co."}

ValidatorTexts ==
    UNION {StringsOfLen(n) : n \in 0..MaxTextLen} \cup DomainTexts \cup InputTexts

\* validateEmail and getSuccessMessage on those texts, evaluated once
\* the values a caller is let to pass: every string of at most MaxArgLen
\* characters of ArgChars, long strings around the length limit, and values
\* that are not strings
ArgChars == {"a", "Q", "@", ".", " ", "\t", "<", ">", "\"", "'", "&"}

MaxArgLen == 3

RECURSIVE ArgsOfLen(_)
ArgsOfLen(n) ==
    IF n = 0 THEN {""}
    ELSE {c \o t : c \in ArgChars, t \in ArgsOfLen(n - 1)}

RECURSIVE Repeat(_, _)
Repeat(s, n) ==
    IF n = 0 THEN ""
    ELSE LET half == Repeat(s, n \div 2)
         IN  half \o half \o (IF n % 2 = 1 THEN s ELSE "")

LongArgs ==
    {Repeat("a", 253), Repeat("a", 254), Repeat("a", 255), Repeat("Q&", 300),
     " " \o Repeat("<a", 200) \o " ", Repeat("a", 254) \o ">", Repeat(" ", 260),
     Repeat("'", 254) \o "a@b.io", Repeat("a", 253) \o " b"}

Args ==
    {Str(s) : s \in UNION {ArgsOfLen(n) : n \in 0..MaxArgLen} \cup LongArgs}
        \cup NonStrings

validationOf == [v \in ValidatorTexts |-> validateEmail(v)]

successMessageOf ==
    [e \in {validationOf[v].email : v \in ValidatorTexts} |-> getSuccessMessage(e)]

-----------------------------------------------------------------------------
(* CareerLaunchApp: configuration, errors and responses                    *)

maxRetries == 3
timeout == 10000
SimDelay == 1500
BackoffUnit == 1000
HideDelay == 10000
FocusDelay == 100
DebounceDelay == 500
MinValidateLen == 3

\* what the model follows: the number of concurrently running
\* handleFormSubmit frames, of pending auto-hide timers and of pending
\* refocus timers
MaxHandlers == 2
MaxHideTimers == 2
MaxFocusTimers == 2

Err(name, message) == [name |-> name, message |-> message]

networkErrors ==
    {"network", "fetch", "connection", "timeout", "dns", "offline", "cors", "blocked"}

isNetworkErrorCaseSensitive(error) ==
    \E keyword \in networkErrors : includes(error.message, keyword)

\* (error.message || '') is "" for an error without message
isNetworkError(error) ==
    LET errorMessage == toLowerCase(error.message)
    IN  \E keyword \in networkErrors : includes(errorMessage, keyword)

\* what fetch() rejects with when the request cannot be made
FetchFailures ==
    {Err("TypeError", "Failed to fetch"),
     Err("TypeError", "NetworkError when attempting to fetch resource."),
     Err("TypeError", "Load failed")}

\* what fetch() / response.json() reject with when the signal of
\* AbortSignal.timeout(timeout) aborts the request: the signal's abort
\* reason.  The catch block tests for the name 'AbortError'; the reason of a
\* signal made by AbortSignal.timeout is a DOMException named 'TimeoutError'.
AbortFailure == Err("AbortError", "The operation was aborted.")

TimeoutFailure == Err("TimeoutError", "signal timed out")

TimeoutFailures == {AbortFailure, TimeoutFailure}

NoResp == [ok |-> FALSE, parses |-> FALSE, hasData |-> FALSE, data |-> <<>>, message |-> "none"]

\* an element of result.data; details: "undefined" when the element has no
\* details, "no id" for a details object without id, "id" for one with an id
Entry(status, details, message) ==
    [status |-> status, details |-> details, message |-> message]

Resp(ok, parses, hasData, data, message) ==
    [ok |-> ok, parses |-> parses, hasData |-> hasData, data |-> data, message |-> message]

\* the responses the endpoint is let to give: status 2xx or not, a body that
\* parses or not, with or without data, data[0] and a top-level message
Responses ==
    {Resp(TRUE,  TRUE,  TRUE,  <<Entry("success", "id", "record added")>>, ""),
     Resp(TRUE,  TRUE,  TRUE,  <<Entry("error", "undefined", "Duplicate data")>>, ""),
     Resp(TRUE,  TRUE,  TRUE,  <<Entry("success", "undefined", "")>>, ""),
     Resp(TRUE,  TRUE,  TRUE,  <<Entry("success", "no id", "")>>, ""),
     Resp(TRUE,  TRUE,  TRUE,  <<>>, ""),
     Resp(FALSE, TRUE,  TRUE,  <<Entry("success", "id", "")>>, ""),
     Resp(FALSE, TRUE,  FALSE, <<>>, "invalid oauth token"),
     Resp(FALSE, TRUE,  FALSE, <<>>, "Session timed out"),
     Resp(FALSE, TRUE,  FALSE, <<>>, "Upstream Connection refused"),
     Resp(FALSE, FALSE, FALSE, <<>>, "")}

\* the outcome of lines 157-164 for a response: a result or a thrown error
Outcome(success, error) == [success |-> success, error |-> error]

NoErr == Err("none", "")

readResponseAnyStatus(r) ==
    IF r.parses /\ r.hasData /\ Len(r.data) > 0 /\ r.data[1].status = "success"
    THEN Outcome(TRUE, NoErr)
    ELSE Outcome(FALSE, Err("Error", "API request failed"))

\* lines 157-164; result.data[0].details.id throws when details is undefined
\* and is undefined, without throwing, when details has no id
readResponse(r) ==
    IF ~r.parses
    THEN Outcome(FALSE, Err("SyntaxError", "Unexpected token < in JSON at position 0"))
    ELSE IF r.ok /\ r.hasData
    THEN IF Len(r.data) = 0
         THEN Outcome(FALSE, Err("TypeError",
                  "Cannot read properties of undefined (reading 'status')"))
         ELSE IF r.data[1].status = "success"
         THEN IF r.data[1].details # "undefined"
              THEN Outcome(TRUE, NoErr)
              ELSE Outcome(FALSE, Err("TypeError",
                       "Cannot read properties of undefined (reading 'id')"))
         ELSE Outcome(FALSE, Err("Error",
                  IF r.data[1].message # "" THEN r.data[1].message
                  ELSE IF r.message # "" THEN r.message ELSE "API request failed"))
    ELSE Outcome(FALSE, Err("Error",
             IF r.hasData /\ Len(r.data) > 0 /\ r.data[1].message # "" THEN r.data[1].message
             ELSE IF r.message # "" THEN r.message ELSE "API request failed"))

timedOutError == Err("Error", "Request timed out. Please check your connection.")

simulatedError == Err("Error", "Simulated network error")

unexpectedError == Err("Error", "An unexpected error occurred")

\* an error whose message is missing or empty
noMessageError == Err("Error", "")

\* an exception raised by a statement of trackConversion's try block
trackingError == Err("TypeError", "console.log is not a function")

\* every error value the catch blocks can see, and isNetworkError on each,
\* evaluated once
Errors ==
    FetchFailures \cup TimeoutFailures \cup {timedOutError, simulatedError, unexpectedError,
                        trackingError, noMessageError}
        \cup {readResponse(r).error : r \in Responses}

networkClassOf == [e \in Errors |-> isNetworkError(e)]

\* line 167: the catch block's test for a timed-out request
isAbort(error) == error.name = "AbortError"

shouldRetryInclusive(error) == retryCount <= maxRetries /\ networkClassOf[error]

shouldRetryAny(error) == retryCount < maxRetries

\* line 172
shouldRetry(error) == retryCount < maxRetries /\ networkClassOf[error]

backoffMsFlat(count) == BackoffUnit

\* line 175: the delay before the retry, given the incremented retryCount
backoffMs(count) == BackoffUnit * count

useFallbackNever == FALSE

\* line 128
useFallback == authToken = ""

reentrantNever == FALSE

\* line 80
reentrant == isSubmitting

timedOutBanner == "Request timed out. Please try again."

errorBannerRaw(error) == error.message

\* lines 251-257
errorBanner(error) ==
    IF isNetworkError(error) THEN messages.networkError
    ELSE IF includes(error.message, "timeout") \/ includes(error.message, "timed out")
    THEN timedOutBanner
    ELSE messages.serverError

errorBannerOf == [e \in Errors |-> errorBanner(e)]

-----------------------------------------------------------------------------
(* The email input and its inline error, as the listeners see and leave    *)
(* them: a record that the statements of a handler transform in order.     *)

Dom ==
    [invalid |-> inputInvalid, aria |-> ariaInvalid, error |-> errorText,
     debounce |-> debounce, focused |-> focused]

SetDom(d) ==
    /\ inputInvalid' = d.invalid
    /\ ariaInvalid' = d.aria
    /\ errorText' = d.error
    /\ debounce' = d.debounce
    /\ focused' = d.focused

updateInputState(d, isValid) ==
    IF isValid
    THEN [d EXCEPT !.invalid = FALSE, !.aria = "false"]
    ELSE [d EXCEPT !.invalid = TRUE, !.aria = "true"]

displayError(d, message) == [d EXCEPT !.error = message]

clearTimeoutSkipped(timers) == timers

\* clearTimeout(validationTimeout): validationTimeout names the timer that was
\* set last, which is pending unless every timer has expired
clearTimeout(timers) ==
    IF Len(timers) > 0 THEN SubSeq(timers, 1, Len(timers) - 1) ELSE timers

focusListenerKeepsTimer(d) == displayError([d EXCEPT !.invalid = FALSE], "")

\* the 'focus' listener
focusListener(d) ==
    displayError([d EXCEPT !.debounce = clearTimeout(@), !.invalid = FALSE], "")

\* HTMLElement.focus(): the 'focus' event fires when focus actually moves
focusInput(d) ==
    IF d.focused THEN d ELSE focusListener([d EXCEPT !.focused = TRUE])

\* the 'blur' listener
blurListener(d, value) ==
    LET result == validationOf[value]
    IN  updateInputState(
            displayError(d, IF result.isValid THEN "" ELSE result.message),
            result.isValid)

inputListenerKeeps(d, value) ==
    [d EXCEPT !.debounce = Append(clearTimeout(@), DebounceDelay)]

\* the 'input' listener: clearTimeout, clear the error, setTimeout(..., 500)
inputListener(d, value) ==
    LET cleared == IF Len(value) > 0
                   THEN [displayError(d, "") EXCEPT !.invalid = FALSE]
                   ELSE d
    IN  [cleared EXCEPT !.debounce = Append(clearTimeout(@), DebounceDelay)]

debounceCallbackFromThree(d, value) ==
    IF Len(value) >= MinValidateLen
    THEN LET result == validationOf[value]
         IN  IF ~result.isValid
             THEN updateInputState(displayError(d, result.message), FALSE)
             ELSE updateInputState(d, TRUE)
    ELSE d

\* the callback of validationTimeout
debounceCallback(d, value) ==
    IF Len(value) > MinValidateLen
    THEN LET result == validationOf[value]
         IN  IF ~result.isValid
             THEN updateInputState(displayError(d, result.message), FALSE)
             ELSE updateInputState(d, TRUE)
    ELSE d

validateForm(d, value) ==
    LET emailResult == validationOf[value]
    IN  updateInputState(
            displayError(d, IF emailResult.isValid THEN "" ELSE emailResult.message),
            emailResult.isValid)

focusOnErrorSkipped(d) == d

\* document.querySelector('.form-input.invalid') finds the email input
focusOnError(d) == IF d.invalid THEN focusInput(d) ELSE d

\* resetForm's part on the input and its error
resetInput(d) == displayError([d EXCEPT !.invalid = FALSE, !.aria = "none"], "")

-----------------------------------------------------------------------------
(* Frames of handleFormSubmit and the history kept about them              *)

\* pc: the await the frame is suspended at; delay: the delay of the timer
\* it waits for (the abort timeout, the backoff or the simulated latency).
\* History: calls started, calls failed, failures that were network-class,
\* the error the pending catch block holds, retryCount and lastOutcome when
\* the submission was accepted.
Frame(pc, email, delay) ==
    [pc |-> pc, email |-> email, delay |-> delay, resp |-> NoResp,
     calls |-> 1, fails |-> 0, netFails |-> 0, caught |-> NoErr,
     rc0 |-> retryCount, prev |-> lastOutcome]

NoFrame ==
    [pc |-> "none", email |-> "", delay |-> NoTimer, resp |-> NoResp,
     calls |-> 0, fails |-> 0, netFails |-> 0, caught |-> NoErr,
     rc0 |-> 0, prev |-> "none"]

Ev(type, frame, error) == [type |-> type, frame |-> frame, error |-> error]

Other == Ev("other", NoFrame, NoErr)

RemoveAt(seq, i) == SubSeq(seq, 1, i - 1) \o SubSeq(seq, i + 1, Len(seq))

InFlight == {i \in DOMAIN handlers : handlers[i].pc \in {"fetch", "json", "sim"}}

SuccessShown == "success" \in msgClass /\ "show" \in msgClass

-----------------------------------------------------------------------------
(* CareerLaunchApp: the statements shared by the handlers                  *)

setLoadingState(isLoading) ==
    /\ btnLoading' = isLoading
    /\ btnDisabled' = isLoading
    /\ ariaBusy' = (IF isLoading THEN "true" ELSE "false")
    /\ btnLabel' = (IF isLoading THEN "Submitting..." ELSE "Notify Me")

clearMessages ==
    /\ msgClass' = {}
    /\ msgText' = ""

showSuccess(email) ==
    /\ msgClass' = {"success", "show"}
    /\ msgText' = successMessageOf[email]
    /\ hideTimers' = hideTimers + 1

handleSubmissionError(error) ==
    /\ msgClass' = {"error", "show"}
    /\ msgText' = errorBannerOf[error]
    /\ focusTimers' = focusTimers + 1

startCallRereads(frame) ==
    IF useFallback
    THEN [frame EXCEPT !.pc = "sim", !.delay = SimDelay,
                       !.email = validationOf[inputValue].email]
    ELSE [frame EXCEPT !.pc = "fetch", !.delay = timeout,
                       !.email = validationOf[inputValue].email]

\* submitToZoho up to its first await: the fallback or a fetch
startCall(frame) ==
    IF useFallback
    THEN [frame EXCEPT !.pc = "sim", !.delay = SimDelay]
    ELSE [frame EXCEPT !.pc = "fetch", !.delay = timeout]

resetRetryCountKept == retryCount

\* resetForm, line 301
resetRetryCount == 0

finallySubmittingStuck == TRUE

\* handleFormSubmit's finally block, line 117
finallySubmitting == FALSE

trackConversionUnguarded(trackFails) == trackFails

\* trackConversion, lines 341-360: does an exception leave it, given that a
\* statement of its try block throws (trackFails); the catch block only logs
trackConversion(trackFails) == FALSE

\* handleFormSubmit, lines 103-106 and 115-118, and lines 111-113 should
\* trackConversion throw
FinishSuccess(i, frame, trackFails) ==
    /\ IF trackConversion(trackFails)
       THEN /\ msgClass' = {"error", "show"}
            /\ msgText' = errorBannerOf[trackingError]
            /\ hideTimers' = hideTimers + 1
            /\ focusTimers' = focusTimers + 1
       ELSE /\ showSuccess(frame.email)
            /\ focusTimers' = focusTimers
    /\ inputValue' = ""
    /\ SetDom(resetInput(Dom))
    /\ retryCount' = resetRetryCount
    /\ setLoadingState(FALSE)
    /\ isSubmitting' = finallySubmitting
    /\ handlers' = RemoveAt(handlers, i)
    /\ lastOutcome' = "success"
    /\ lastEvent' = Ev("success", frame, IF trackFails THEN trackingError ELSE NoErr)
    /\ UNCHANGED <<SliderVars, arg, ret, authToken, fetchCalls>>

\* handleFormSubmit, lines 111-118
FinishError(i, frame, error) ==
    /\ handleSubmissionError(error)
    /\ setLoadingState(FALSE)
    /\ isSubmitting' = finallySubmitting
    /\ handlers' = RemoveAt(handlers, i)
    /\ lastOutcome' = "error"
    /\ lastEvent' = Ev("error", frame, error)
    /\ UNCHANGED <<SliderVars, arg, ret, authToken, retryCount, inputValue, inputInvalid, ariaInvalid,
                   focused, errorText, debounce, hideTimers, fetchCalls>>

\* submitToZoho, lines 166-180: the catch block around fetch and json
Catch(i, error) ==
    LET failed == [handlers[i] EXCEPT
                      !.fails = @ + 1,
                      !.netFails = @ + (IF networkClassOf[error] THEN 1 ELSE 0),
                      !.caught = error]
    IN  IF isAbort(error)
        THEN FinishError(i, failed, timedOutError)
        ELSE IF shouldRetry(error)
        THEN /\ retryCount' = retryCount + 1
             /\ handlers' = [handlers EXCEPT ![i] =
                    [failed EXCEPT !.pc = "backoff",
                                   !.delay = backoffMs(retryCount + 1)]]
             /\ lastEvent' = Ev("failed", failed, error)
             /\ UNCHANGED <<SliderVars, arg, ret, authToken, isSubmitting, inputValue, inputInvalid,
                            ariaInvalid, focused, errorText, debounce, btnLoading,
                            btnDisabled, ariaBusy, btnLabel, msgClass, msgText,
                            hideTimers, focusTimers, fetchCalls, lastOutcome>>
        ELSE FinishError(i, failed, error)

\* handleFormSubmit up to its first await
handleFormSubmit ==
    IF reentrant
    THEN /\ lastEvent' = Ev("ignored", NoFrame, NoErr)
         /\ UNCHANGED <<SliderVars, arg, ret, authToken, isSubmitting, retryCount, handlers, inputValue,
                        inputInvalid, ariaInvalid, focused, errorText, debounce,
                        btnLoading, btnDisabled, ariaBusy, btnLabel, msgClass,
                        msgText, hideTimers, focusTimers, fetchCalls, lastOutcome>>
    ELSE LET validationResult == validationOf[inputValue]
             validated == validateForm(Dom, inputValue)
         IN  /\ clearMessages
             /\ IF ~validationResult.isValid
                THEN /\ SetDom(focusOnError(validated))
                     /\ lastEvent' = Ev("invalid", NoFrame, NoErr)
                     /\ UNCHANGED <<isSubmitting, handlers, btnLoading, btnDisabled,
                                    ariaBusy, btnLabel, fetchCalls>>
                ELSE LET frame == startCall(Frame("start", validationResult.email, NoTimer))
                     IN  /\ SetDom(validated)
                         /\ setLoadingState(TRUE)
                         /\ isSubmitting' = TRUE
                         /\ handlers' = Append(handlers, frame)
                         /\ fetchCalls' = (fetchCalls \/ frame.pc = "fetch")
                         /\ lastEvent' = Ev("accepted", frame, NoErr)
             /\ UNCHANGED <<SliderVars, arg, ret, authToken, retryCount, inputValue, hideTimers,
                            focusTimers, lastOutcome>>

-----------------------------------------------------------------------------
(* HeroSlider: the object, its slides and indicators, its interval timer   *)

MaxSlides == 3

MaxIntervalTimers == 3

duration == 3500

StartDelay == 2000

\* the handles setInterval can return; this.interval = null is NoInterval
Handles == 1..MaxIntervalTimers

NoInterval == 0

SlideOff == [active |-> FALSE, ariaHidden |-> "true"]

SlideOn == [active |-> TRUE, ariaHidden |-> "false"]

\* the slider as its methods see and leave it: the fields of the object,
\* the elements it queried at construction and the timers it has running
Sl ==
    [currentSlide |-> heroSlider.currentSlide, totalSlides |-> heroSlider.totalSlides,
     interval |-> heroSlider.interval, isPaused |-> heroSlider.isPaused,
     slides |-> slides, indicators |-> indicators, intervals |-> intervals]

SetSl(s) ==
    /\ heroSlider' = [currentSlide |-> s.currentSlide, totalSlides |-> s.totalSlides,
                      interval |-> s.interval, isPaused |-> s.isPaused]
    /\ slides' = s.slides
    /\ indicators' = s.indicators
    /\ intervals' = s.intervals

\* the two forEach loops of showSlide
hideAll(s) ==
    [s EXCEPT !.slides = [i \in DOMAIN @ |-> SlideOff],
              !.indicators = [i \in DOMAIN @ |-> FALSE]]

showSlide(s, index) ==
    IF index \in DOMAIN s.slides
    THEN [hideAll(s) EXCEPT !.slides[index] = SlideOn,
                            !.currentSlide = index,
                            !.indicators = [i \in DOMAIN @ |-> i = index]]
    ELSE hideAll(s)

nextSlideNoWrap(s) ==
    IF s.isPaused THEN s ELSE showSlide(s, s.currentSlide + 1)

\* (currentSlide + 1) % 0 is NaN, and slides[NaN] is undefined
nextSlide(s) ==
    IF s.isPaused THEN s
    ELSE IF s.totalSlides = 0 THEN hideAll(s)
    ELSE showSlide(s, (s.currentSlide + 1) % s.totalSlides)

goToSlide(s, index) ==
    IF index >= 0 /\ index < s.totalSlides THEN showSlide(s, index) ELSE s

clearInterval(timers, handle) == timers \ {handle}

\* setInterval returns a handle no running timer has and this.interval
\* does not hold
setInterval(s) ==
    CHOOSE h \in Handles \ (s.intervals \cup {s.interval}) :
        \A g \in Handles \ (s.intervals \cup {s.interval}) : h <= g

startAutoSlideKeepsOld(s) ==
    [s EXCEPT !.interval = setInterval(s), !.intervals = @ \cup {setInterval(s)}]

startAutoSlide(s) ==
    LET cleared == IF s.interval # NoInterval
                   THEN [s EXCEPT !.intervals = clearInterval(@, s.interval)]
                   ELSE s
        handle == setInterval(s)
    IN  [cleared EXCEPT !.interval = handle, !.intervals = @ \cup {handle}]

stopInterval(s) ==
    IF s.interval # NoInterval
    THEN [s EXCEPT !.intervals = clearInterval(@, s.interval), !.interval = NoInterval]
    ELSE s

pauseSlider(s) == stopInterval([s EXCEPT !.isPaused = TRUE])

resumeSlider(s) == startAutoSlide([s EXCEPT !.isPaused = FALSE])

\* a listener is the event type and the function object that was registered:
\* an arrow function of setupHoverPause, or a method of the object
Listener(type, fn) == [type |-> type, fn |-> fn]

addEventListener(listeners, type, fn) == listeners \cup {Listener(type, fn)}

removeEventListener(listeners, type, fn) == listeners \ {Listener(type, fn)}

\* setupHoverPause, when .hero-portraits exists and (hover: hover) matches
setupHoverPause(hover) ==
    IF hover
    THEN addEventListener(addEventListener({}, "mouseenter", "() => this.pauseSlider()"),
                          "mouseleave", "() => this.resumeSlider()")
    ELSE {}

Listens(type) == \E l \in hoverListeners : l.type = type

\* destroy's part on the container
removeHoverListeners(listeners) ==
    removeEventListener(removeEventListener(listeners, "mouseenter", "this.pauseSlider"),
                        "mouseleave", "this.resumeSlider")

SlEv(op, index) == [op |-> op, index |-> index]

\* new HeroSlider() on a page with n slides and m indicators
Constructed(n, m, hover) ==
    LET fields == [currentSlide |-> 0, totalSlides |-> n, interval |-> NoInterval,
                   isPaused |-> FALSE,
                   slides |-> [i \in 0..(n - 1) |-> SlideOff],
                   indicators |-> [i \in 0..(m - 1) |-> FALSE],
                   intervals |-> {}]
        shown == IF n = 0 THEN fields ELSE showSlide(fields, 0)
    IN  /\ heroSlider = [currentSlide |-> shown.currentSlide, totalSlides |-> n,
                         interval |-> NoInterval, isPaused |-> FALSE]
        /\ slides = shown.slides
        /\ indicators = shown.indicators
        /\ intervals = {}
        /\ startTimer = (n # 0)
        /\ hoverListeners = (IF n = 0 THEN {} ELSE setupHoverPause(hover))
        /\ destroyed = FALSE
        /\ sliderEvent = SlEv("init", 0)

\* the page of the form alone: no slide, no indicator, no container
SliderAbsent == Constructed(0, 0, FALSE) /\ pointerInside = FALSE

-----------------------------------------------------------------------------
(* Initial state: the page after DOMContentLoaded and the constructor      *)

AuthTokens == {"", "1000.abc.def"}

\* the form and its controller after the constructor
FormLoaded ==
    /\ authToken \in AuthTokens
    /\ isSubmitting = FALSE
    /\ retryCount = 0
    /\ handlers = <<>>
    /\ inputValue = ""
    /\ inputInvalid = FALSE
    /\ ariaInvalid = "none"
    /\ focused = FALSE
    /\ errorText = ""
    /\ debounce = <<>>
    /\ btnLoading = FALSE
    /\ btnDisabled = FALSE
    /\ ariaBusy = "none"
    /\ btnLabel = "Notify Me"
    /\ msgClass = {}
    /\ msgText = ""
    /\ hideTimers = 0
    /\ focusTimers = 0
    /\ fetchCalls = FALSE
    /\ lastOutcome = "none"
    /\ lastEvent = Other
    /\ arg = Undefined
    /\ ret = NoRet

Init == FormLoaded /\ SliderAbsent

ControllerVars ==
    <<authToken, isSubmitting, retryCount, handlers, btnLoading, btnDisabled,
      ariaBusy, btnLabel, fetchCalls, lastOutcome>>

BannerVars == <<msgClass, msgText, hideTimers, focusTimers>>

-----------------------------------------------------------------------------
(* The user and the page                                                   *)

\* the user types: an 'input' event on the focused field
InputEvent(v) ==
    /\ focused
    /\ v # inputValue
    /\ inputValue' = v
    /\ SetDom(inputListener(Dom, v))
    /\ lastEvent' = Ev("input", NoFrame, NoErr)
    /\ UNCHANGED <<SliderVars, arg, ret, ControllerVars, BannerVars>>

\* the field loses focus
BlurEvent ==
    /\ focused
    /\ SetDom(blurListener([Dom EXCEPT !.focused = FALSE], inputValue))
    /\ lastEvent' = Other
    /\ UNCHANGED <<SliderVars, arg, ret, ControllerVars, BannerVars, inputValue>>

\* the user clicks or tabs into the field
FocusEvent ==
    /\ ~focused
    /\ SetDom(focusInput(Dom))
    /\ lastEvent' = Other
    /\ UNCHANGED <<SliderVars, arg, ret, ControllerVars, BannerVars, inputValue>>

\* the oldest validation timer expires
DebounceFires ==
    /\ Len(debounce) > 0
    /\ SetDom(debounceCallback([Dom EXCEPT !.debounce = Tail(@)], inputValue))
    /\ lastEvent' = Ev("debounce", NoFrame, NoErr)
    /\ UNCHANGED <<SliderVars, arg, ret, ControllerVars, BannerVars, inputValue>>

\* the events that set timers are followed while the timers they may leave
\* pending stay within the bounds
TimerRoom ==
    /\ hideTimers + Len(handlers) < MaxHideTimers
    /\ focusTimers + Len(handlers) < MaxFocusTimers

MaySubmit == Len(handlers) < MaxHandlers /\ (isSubmitting \/ TimerRoom)

\* Enter in the field: the 'keypress' listener dispatches 'submit'
SubmitEnter ==
    /\ focused
    /\ ~isSubmitting
    /\ MaySubmit
    /\ handleFormSubmit

\* a click on the enabled submit button (the field does not have focus)
SubmitClick ==
    /\ ~focused
    /\ ~btnDisabled
    /\ MaySubmit
    /\ handleFormSubmit

\* a 'submit' event delivered to the form by any other means, at any time
SubmitDispatch ==
    /\ MaySubmit
    /\ handleFormSubmit

\* the 'keydown' listener of the document
EscapeKey ==
    /\ clearMessages
    /\ lastEvent' = Other
    /\ UNCHANGED <<SliderVars, arg, ret, ControllerVars, inputValue, inputInvalid, ariaInvalid, focused,
                   errorText, debounce, hideTimers, focusTimers>>

\* a window 'error' event whose message contains 'form'
GlobalError ==
    /\ focusTimers + Len(handlers) < MaxFocusTimers
    /\ handleSubmissionError(unexpectedError)
    /\ lastEvent' = Ev("global", NoFrame, unexpectedError)
    /\ UNCHANGED <<SliderVars, arg, ret, ControllerVars, inputValue, inputInvalid, ariaInvalid, focused,
                   errorText, debounce, hideTimers>>

\* the oldest auto-hide timer of showSuccess expires
HideFires ==
    /\ hideTimers > 0
    /\ hideTimers' = hideTimers - 1
    /\ msgClass' = (IF "success" \in msgClass THEN msgClass \ {"show"} ELSE msgClass)
    /\ lastEvent' = Ev("hide", NoFrame, NoErr)
    /\ UNCHANGED <<SliderVars, arg, ret, ControllerVars, inputValue, inputInvalid, ariaInvalid, focused,
                   errorText, debounce, msgText, focusTimers>>

\* the oldest refocus timer of handleSubmissionError expires
RefocusFires ==
    /\ focusTimers > 0
    /\ focusTimers' = focusTimers - 1
    /\ SetDom(focusInput(Dom))
    /\ lastEvent' = Other
    /\ UNCHANGED <<SliderVars, arg, ret, ControllerVars, inputValue, msgClass, msgText, hideTimers>>

-----------------------------------------------------------------------------
(* The network and the timers of a submission                              *)

\* fetch() rejects
FetchRejects(i, error) ==
    /\ handlers[i].pc = "fetch"
    /\ Catch(i, error)

\* fetch() resolves with a response; response.json() starts
FetchResponds(i, r) ==
    /\ handlers[i].pc = "fetch"
    /\ handlers' = [handlers EXCEPT ![i] = [@ EXCEPT !.pc = "json", !.resp = r]]
    /\ lastEvent' = Other
    /\ UNCHANGED <<SliderVars, arg, ret, authToken, isSubmitting, retryCount, inputValue, inputInvalid,
                   ariaInvalid, focused, errorText, debounce, btnLoading, btnDisabled,
                   ariaBusy, btnLabel, BannerVars, fetchCalls, lastOutcome>>

\* response.json() settles and lines 159-164 run
JsonSettles(i) ==
    /\ handlers[i].pc = "json"
    /\ LET outcome == readResponse(handlers[i].resp)
       IN  IF outcome.success
           THEN \E trackFails \in BOOLEAN : FinishSuccess(i, handlers[i], trackFails)
           ELSE Catch(i, outcome.error)

\* the timeout passes: the signal of AbortSignal.timeout aborts the request
TimeoutFires(i, error) ==
    /\ handlers[i].pc \in {"fetch", "json"}
    /\ Catch(i, error)

\* delay(1000 * retryCount) resolves: submitToZoho(data) is called again
BackoffFires(i) ==
    /\ handlers[i].pc = "backoff"
    /\ LET waited == [handlers[i] EXCEPT !.caught = NoErr]
           frame == startCall([waited EXCEPT !.calls = @ + 1])
       IN  /\ handlers' = [handlers EXCEPT ![i] = frame]
           /\ fetchCalls' = (fetchCalls \/ frame.pc = "fetch")
           /\ lastEvent' = Ev("retry", waited, NoErr)
    /\ UNCHANGED <<SliderVars, arg, ret, authToken, isSubmitting, retryCount, inputValue, inputInvalid,
                   ariaInvalid, focused, errorText, debounce, btnLoading, btnDisabled,
                   ariaBusy, btnLabel, BannerVars, lastOutcome>>

SimFailsCaught(i) == Catch(i, simulatedError)

\* line 194 throws out of submitToZoho, whose try block (lines 155-180) the
\* fallback returns before: the error reaches handleFormSubmit's catch
SimFails(i) ==
    FinishError(i, [handlers[i] EXCEPT !.fails = @ + 1, !.netFails = @ + 1,
                                       !.caught = simulatedError],
                simulatedError)

\* delay(1500) resolves in simulateSubmission; Math.random() < 0.1 or not
SimSettles(i, fails) ==
    /\ handlers[i].pc = "sim"
    /\ IF fails
       THEN SimFails(i)
       ELSE \E trackFails \in BOOLEAN : FinishSuccess(i, handlers[i], trackFails)

\* one step of the page: the user, a timer or the network (texts: what the
\* user may type)
Step(texts) ==
    \/ \E v \in texts : InputEvent(v)
    \/ BlurEvent
    \/ FocusEvent
    \/ DebounceFires
    \/ SubmitEnter
    \/ SubmitClick
    \/ SubmitDispatch
    \/ EscapeKey
    \/ GlobalError
    \/ HideFires
    \/ RefocusFires
    \/ \E i \in DOMAIN handlers : \E error \in FetchFailures : FetchRejects(i, error)
    \/ \E i \in DOMAIN handlers : \E r \in Responses : FetchResponds(i, r)
    \/ \E i \in DOMAIN handlers : JsonSettles(i)
    \/ \E i \in DOMAIN handlers : \E error \in TimeoutFailures : TimeoutFires(i, error)
    \/ \E i \in DOMAIN handlers : BackoffFires(i)
    \/ \E i \in DOMAIN handlers : \E fails \in BOOLEAN : SimSettles(i, fails)

Next == Step(InputTexts)

Spec == Init /\ [][Next]_vars

\* a frame moves on: the network answers, the request times out or a delay
\* resolves
Settle(i) ==
    \/ \E error \in FetchFailures : FetchRejects(i, error)
    \/ \E r \in Responses : FetchResponds(i, r)
    \/ JsonSettles(i)
    \/ \E error \in TimeoutFailures : TimeoutFires(i, error)
    \/ BackoffFires(i)
    \/ \E fails \in BOOLEAN : SimSettles(i, fails)

\* every pending await of a submission settles: a call succeeds, fails or is
\* aborted by its timeout, and a delay resolves
\* The user types one of FairTexts: nothing, an invalid and a valid address.
FairTexts == {"", "test@", "a@b.io"}

FairNext == Step(FairTexts)

FairSpec ==
    /\ Init
    /\ [][FairNext]_vars
    /\ WF_vars(\E i \in DOMAIN handlers : Settle(i))

\* The validator on its own: the page loads with any of ValidatorTexts in
\* the field, and the user submits the form or moves the focus; blur and
\* submit validate the value.
ValidatorInit ==
    /\ authToken \in AuthTokens
    /\ isSubmitting = FALSE
    /\ retryCount = 0
    /\ handlers = <<>>
    /\ inputValue \in ValidatorTexts
    /\ inputInvalid = FALSE
    /\ ariaInvalid = "none"
    /\ focused = FALSE
    /\ errorText = ""
    /\ debounce = <<>>
    /\ btnLoading = FALSE
    /\ btnDisabled = FALSE
    /\ ariaBusy = "none"
    /\ btnLabel = "Notify Me"
    /\ msgClass = {}
    /\ msgText = ""
    /\ hideTimers = 0
    /\ focusTimers = 0
    /\ fetchCalls = FALSE
    /\ lastOutcome = "none"
    /\ lastEvent = Other
    /\ arg = Undefined
    /\ ret = NoRet
    /\ SliderAbsent

ValidatorNext ==
    \/ SubmitClick
    \/ SubmitEnter
    \/ FocusEvent
    \/ BlurEvent

ValidatorSpec == ValidatorInit /\ [][ValidatorNext]_vars

\* The exported FormValidator called directly: a caller holds any of Args
\* and calls validateEmail or sanitizeEmail with it; the page stays as loaded.
PageVars ==
    <<authToken, isSubmitting, retryCount, handlers, inputValue, inputInvalid,
      ariaInvalid, focused, errorText, debounce, btnLoading, btnDisabled,
      ariaBusy, btnLabel, msgClass, msgText, hideTimers, focusTimers,
      fetchCalls, lastOutcome, lastEvent>>

ApiInit ==
    /\ authToken \in AuthTokens
    /\ isSubmitting = FALSE
    /\ retryCount = 0
    /\ handlers = <<>>
    /\ inputValue = ""
    /\ inputInvalid = FALSE
    /\ ariaInvalid = "none"
    /\ focused = FALSE
    /\ errorText = ""
    /\ debounce = <<>>
    /\ btnLoading = FALSE
    /\ btnDisabled = FALSE
    /\ ariaBusy = "none"
    /\ btnLabel = "Notify Me"
    /\ msgClass = {}
    /\ msgText = ""
    /\ hideTimers = 0
    /\ focusTimers = 0
    /\ fetchCalls = FALSE
    /\ lastOutcome = "none"
    /\ lastEvent = Other
    /\ arg \in Args
    /\ ret = NoRet
    /\ SliderAbsent

CallValidateEmail ==
    /\ ret' = validateEmailOf(arg)
    /\ UNCHANGED <<PageVars, SliderVars, arg>>

CallSanitizeEmail ==
    /\ ret' = sanitizeEmailOf(arg)
    /\ UNCHANGED <<PageVars, SliderVars, arg>>

\* the caller passes the string sanitizeEmail returned to sanitizeEmail again
CallSanitizeEmailAgain ==
    /\ ret.method = "sanitizeEmail"
    /\ arg.type = "string"
    /\ arg' = Str(ret.text)
    /\ ret' = sanitizeEmailOf(arg')
    /\ UNCHANGED <<PageVars, SliderVars>>

ApiNext == CallValidateEmail \/ CallSanitizeEmail \/ CallSanitizeEmailAgain

ApiSpec == ApiInit /\ [][ApiNext]_vars

-----------------------------------------------------------------------------
(* The user at the keyboard: the page with nothing submitted, the field    *)
(* edited one character at a time, each edit an 'input' event              *)

\* a character typed at the end of the field
TypeKey ==
    \E c \in TextChars :
        /\ Len(inputValue) < MaxTextLen
        /\ InputEvent(inputValue \o c)

\* Backspace at the end of the field
Backspace ==
    /\ Len(inputValue) > 0
    /\ InputEvent(SubSeq(inputValue, 1, Len(inputValue) - 1))

TypingNext ==
    \/ TypeKey
    \/ Backspace
    \/ DebounceFires
    \/ FocusEvent
    \/ BlurEvent

TypingSpec == Init /\ [][TypingNext]_vars

-----------------------------------------------------------------------------
(* The slider on its page: timers, the mouse, the indicators, and callers  *)
(* of its public methods                                                   *)

SliderInit ==
    /\ FormLoaded
    /\ \E n \in 0..MaxSlides, m \in 0..(MaxSlides + 1), hover \in BOOLEAN :
          Constructed(n, m, hover)
    /\ pointerInside \in BOOLEAN

FormVars == <<PageVars, arg, ret>>

\* a running setInterval timer is followed while a handle is left for it
CanStart == Handles \ (intervals \cup {heroSlider.interval}) # {}

\* the start-up timer of init expires
StartupFires ==
    /\ startTimer
    /\ CanStart
    /\ startTimer' = FALSE
    /\ SetSl(startAutoSlide(Sl))
    /\ sliderEvent' = SlEv("startup", 0)
    /\ UNCHANGED <<FormVars, hoverListeners, pointerInside, destroyed>>

\* a running interval timer ticks
IntervalTick ==
    \E h \in intervals :
        /\ SetSl(nextSlide(Sl))
        /\ sliderEvent' = SlEv("tick", h)
        /\ UNCHANGED <<FormVars, startTimer, hoverListeners, pointerInside, destroyed>>

\* the pointer moves onto .hero-portraits
MouseEnter ==
    /\ ~pointerInside
    /\ pointerInside' = TRUE
    /\ SetSl(IF Listens("mouseenter") THEN pauseSlider(Sl) ELSE Sl)
    /\ sliderEvent' = SlEv("mouseenter", 0)
    /\ UNCHANGED <<FormVars, startTimer, hoverListeners, destroyed>>

\* the pointer leaves .hero-portraits
MouseLeave ==
    /\ pointerInside
    /\ CanStart
    /\ pointerInside' = FALSE
    /\ SetSl(IF Listens("mouseleave") THEN resumeSlider(Sl) ELSE Sl)
    /\ sliderEvent' = SlEv("mouseleave", 0)
    /\ UNCHANGED <<FormVars, startTimer, hoverListeners, destroyed>>

\* a click on indicator index, or Enter or Space on it: setupIndicators ran
\* when init found slides
IndicatorClick ==
    \E index \in DOMAIN indicators :
        /\ heroSlider.totalSlides # 0
        /\ CanStart
        /\ LET went == goToSlide(Sl, index)
           IN  SetSl(IF ~went.isPaused THEN startAutoSlide(went) ELSE went)
        /\ sliderEvent' = SlEv("indicator", index)
        /\ UNCHANGED <<FormVars, startTimer, hoverListeners, pointerInside, destroyed>>

\* a caller of the public methods
CallNextSlide ==
    /\ SetSl(nextSlide(Sl))
    /\ sliderEvent' = SlEv("nextSlide", 0)
    /\ UNCHANGED <<FormVars, startTimer, hoverListeners, pointerInside, destroyed>>

CallGoToSlide ==
    \E index \in -1..(MaxSlides + 1) :
        /\ SetSl(goToSlide(Sl, index))
        /\ sliderEvent' = SlEv("goToSlide", index)
        /\ UNCHANGED <<FormVars, startTimer, hoverListeners, pointerInside, destroyed>>

Destroy ==
    /\ SetSl(stopInterval(Sl))
    /\ hoverListeners' = removeHoverListeners(hoverListeners)
    /\ destroyed' = TRUE
    /\ sliderEvent' = SlEv("destroy", 0)
    /\ UNCHANGED <<FormVars, startTimer, pointerInside>>

SliderNext ==
    \/ StartupFires
    \/ IntervalTick
    \/ MouseEnter
    \/ MouseLeave
    \/ IndicatorClick
    \/ CallNextSlide
    \/ CallGoToSlide
    \/ Destroy

SliderSpec == SliderInit /\ [][SliderNext]_vars

-----------------------------------------------------------------------------
(* Properties                                                              *)

Done == lastEvent.frame

Live == authToken # ""

Idle ==
    /\ ~isSubmitting
    /\ ~btnDisabled
    /\ ~btnLoading
    /\ ariaBusy = "false"
    /\ btnLabel = "Notify Me"

\* C1: at most one network call (fetch or simulated submission) is
\* outstanding at any time and at most one submission is in progress; every
\* call but the first of a submission was started after all the calls before
\* it had failed, and while a backoff delay is pending no call is outstanding.
SingleFlight ==
    /\ Cardinality(InFlight) <= 1
    /\ Len(handlers) <= 1
    /\ \A i \in DOMAIN handlers :
          /\ handlers[i].pc \in {"fetch", "json", "sim"}
                => handlers[i].calls = handlers[i].fails + 1
          /\ handlers[i].pc = "backoff"
                => /\ handlers[i].calls = handlers[i].fails
                   /\ networkClassOf[handlers[i].caught]

SingleFlightWitness ==
    /\ lastEvent.type = "ignored"
    /\ \E i \in DOMAIN handlers : handlers[i].pc = "fetch" /\ handlers[i].calls = 2

\* C2 as stated: a submission that starts with retryCount = 0 and whose
\* calls all fail with network-class errors makes at most 3 network calls.
AtMostThreeCalls ==
    \A i \in DOMAIN handlers :
        (handlers[i].rc0 = 0 /\ handlers[i].netFails = handlers[i].fails)
            => handlers[i].calls <= 3

\* C2 amended: such a submission makes at most 4 network calls (the first
\* call and maxRetries = 3 retries); with an auth token configured it ends
\* after the 4th consecutive network-class failure, with the terminal
\* network-error banner and no call left.
AtMostFourCalls ==
    /\ \A i \in DOMAIN handlers :
          handlers[i].rc0 = 0 => handlers[i].calls <= 4
    /\ (/\ lastEvent.type = "error"
        /\ Done.rc0 = 0
        /\ Done.netFails = Done.fails
        /\ Live)
          => /\ Done.calls = 4
             /\ handlers = <<>>
             /\ msgClass = {"error", "show"}
             /\ msgText = messages.networkError

AtMostFourCallsWitness ==
    /\ lastEvent.type = "error"
    /\ Done.rc0 = 0
    /\ Done.calls = 4
    /\ Done.netFails = 4

InvalidSubmitStartsNothing ==
    [][lastEvent'.type = "invalid"
         => /\ ~validationOf[inputValue].isValid
            /\ UNCHANGED <<handlers, fetchCalls, retryCount, isSubmitting,
                           btnLoading, btnDisabled, ariaBusy, btnLabel>>
            /\ handlers' = <<>>
            /\ ~isSubmitting'
            /\ ~btnLoading' /\ ~btnDisabled'
            /\ ariaBusy' # "true"
            /\ btnLabel' # "Submitting..."
            /\ focused']_vars

InvalidSubmitWitness ==
    /\ lastEvent.type = "invalid"
    /\ inputValue = "test@"
    /\ focused
    /\ retryCount = 3

\* C5: every accepted submission returns to Idle, given that every pending
\* call or delay of a submission settles.
ReturnsToIdle == isSubmitting ~> Idle

ReturnsToIdleWitness ==
    /\ lastEvent.type = "error"
    /\ Done.calls = 4
    /\ Idle

\* C6: when the request was aborted by the timeout, the banner shows the
\* timed-out message.
TimeoutShowsTimedOutBanner ==
    (lastEvent.type = "error" /\ isAbort(Done.caught)) => msgText = timedOutBanner

\* C7: the loading UI is never active together with a visible banner, and
\* the banner is never a success and an error banner at once.
OneUiStateActive ==
    /\ ~((btnDisabled /\ ariaBusy = "true") /\ "show" \in msgClass)
    /\ ~({"success", "error"} \subseteq msgClass)

\* C8: with an empty auth token fetch is never called, and every accepted
\* submission runs exactly one simulated submission, which settles after a
\* delay of 1500 ms in success or in failure.
FallbackNeverFetches ==
    authToken = ""
        => /\ ~fetchCalls
           /\ \A i \in DOMAIN handlers :
                 /\ handlers[i].pc = "sim"
                 /\ handlers[i].delay = 1500
                 /\ handlers[i].calls = 1
           /\ lastEvent.type \in {"success", "error"}
                 => (Done.pc = "sim" /\ Done.delay = 1500 /\ Done.calls = 1)
           /\ lastEvent.type \notin {"failed", "retry"}

FallbackWitness ==
    /\ authToken = ""
    /\ lastEvent.type = "error"
    /\ lastOutcome = "error"
    /\ Done.prev = "success"

\* C9 as stated: a failed call whose error message contains no network
\* keyword ends the submission with the generic server-error banner.
NonKeywordFailureShowsServerError ==
    (lastEvent.type \in {"failed", "error"} /\ ~networkClassOf[Done.caught])
        => (lastEvent.type = "error" /\ msgText = messages.serverError)

\* C9 amended: a failed call whose error message contains no network
\* keyword ends the submission: no further call is made and retryCount is
\* unchanged.  The banner shows the generic server-error message, except
\* that it shows the network-error message when the call was rejected with
\* an 'AbortError' and the timed-out message when the error message contains
\* 'timed out'.
NonKeywordFailureIsTerminal ==
    [][(lastEvent'.type \in {"failed", "error"}
            /\ ~networkClassOf[lastEvent'.frame.caught])
         => /\ lastEvent'.type = "error"
            /\ retryCount' = retryCount
            /\ handlers' = <<>>
            /\ ~isSubmitting'
            /\ msgClass' = {"error", "show"}
            /\ msgText' =
                 (IF isAbort(lastEvent'.frame.caught) THEN messages.networkError
                  ELSE IF includes(lastEvent'.frame.caught.message, "timed out")
                  THEN timedOutBanner
                  ELSE messages.serverError)]_vars

NonKeywordFailureWitness ==
    /\ lastEvent.type = "error"
    /\ Done.caught.message = "invalid oauth token"
    /\ Done.calls = 2
    /\ msgText = messages.serverError

HideOnlyByOwnTimer ==
    [][(/\ lastEvent'.type = "hide"
        /\ SuccessShown
        /\ "show" \notin msgClass')
         => hideTimers = 1]_vars

\* the response the last settled call read: 2xx, a body that parses, and
\* data[0].status = 'success'
SuccessStatus(r) ==
    r.ok /\ r.parses /\ r.hasData /\ Len(r.data) > 0 /\ r.data[1].status = "success"

\* the call, a fetch, ended with its body read (not by the timeout)
BodyRead ==
    /\ Live
    /\ lastEvent.type \in {"success", "failed", "error"}
    /\ Done.pc = "json"
    /\ Done.caught \notin TimeoutFailures

\* C12 as stated: with an auth token, a call whose body was read ends in the
\* success outcome iff the response is 2xx and data[0] has status 'success'
\* and details with an id.
SuccessIffShapeWithId ==
    BodyRead =>
        (lastEvent.type = "success"
            <=> (SuccessStatus(Done.resp) /\ Done.resp.data[1].details = "id"))

\* C12 amended: with an auth token, a call whose body was read (before the
\* timeout) ends in the success outcome (success banner with a thank-you
\* message, input cleared) iff the response is 2xx and data[0] has status
\* 'success' and details, with or without an id; after every other response
\* no success banner is in the banner region.
SuccessIffShape ==
    BodyRead =>
        /\ lastEvent.type = "success"
              <=> (SuccessStatus(Done.resp) /\ Done.resp.data[1].details # "undefined")
        /\ lastEvent.type = "success"
              => /\ msgClass = {"success", "show"}
                 /\ msgText \in {messages.success, eduSuccess}
                 /\ inputValue = ""
        /\ lastEvent.type # "success" => "success" \notin msgClass

SuccessIffShapeWitness ==
    /\ BodyRead
    /\ lastEvent.type = "success"
    /\ Done.resp.data[1].details = "no id"
    /\ Done.calls = 2
    /\ msgText = eduSuccess

\* the message the DOMContentLoaded listener shows, instead of creating the
\* controller, in a browser without fetch or Promise
unsupportedBrowser ==
    "Your browser is not supported. Please update to a modern browser."

BannerTexts ==
    {"", messages.success, eduSuccess, messages.networkError, timedOutBanner,
     messages.serverError, unsupportedBrowser}

\* C13: the text of the banner region is always one of the fixed strings;
\* when a submission ends in an error the banner is not the message of the
\* error that was caught or thrown, whatever the response contained.
BannerTextIsFixed ==
    /\ msgText \in BannerTexts
    /\ lastEvent.type = "error"
          => /\ msgText \in BannerTexts \ {""}
             /\ msgText # lastEvent.error.message
             /\ msgText # Done.caught.message

BannerTextWitness ==
    /\ lastEvent.type = "error"
    /\ Done.pc = "json"
    /\ Done.caught.message = "Duplicate data"
    /\ msgText = messages.serverError

\* C14: when a statement of conversion tracking throws after a successful
\* submission, the success banner is shown and no error banner, the input
\* is cleared, retryCount is 0 and the controller is back in Idle with no
\* submission in progress.
TrackingFailureIsHarmless ==
    (lastEvent.type = "success" /\ lastEvent.error = trackingError)
        => /\ msgClass = {"success", "show"}
           /\ msgText \in {messages.success, eduSuccess}
           /\ inputValue = ""
           /\ ~inputInvalid
           /\ errorText = ""
           /\ retryCount = 0
           /\ handlers = <<>>
           /\ Idle

TrackingFailureWitness ==
    /\ lastEvent.type = "success"
    /\ lastEvent.error = trackingError
    /\ Done.calls = 3
    /\ msgText = messages.success

\* C15: at most one delayed validation is pending, set with 500 ms; right
\* after an input event the pending one is the one that event scheduled;
\* when a delayed validation has run none is pending, and the field shows
\* the verdict of validateEmail on the value it has at that time (values of
\* more than 3 characters are validated).
DebounceSinglePending ==
    /\ Len(debounce) <= 1
    /\ \A k \in DOMAIN debounce : debounce[k] = 500
    /\ lastEvent.type = "input" => Len(debounce) = 1
    /\ lastEvent.type = "debounce"
          => /\ debounce = <<>>
             /\ Len(inputValue) > 3
                   => /\ inputInvalid = ~validationOf[inputValue].isValid
                      /\ ariaInvalid = (IF inputInvalid THEN "true" ELSE "false")
                      /\ inputInvalid => errorText = validationOf[inputValue].message

DebounceWitness ==
    /\ lastEvent.type = "debounce"
    /\ inputValue = "x@gmail.co"
    /\ errorText = domainSpelling
    /\ isSubmitting

\* C16 as stated: right after every input event, whatever the resulting
\* value, the inline error is empty and the input does not carry 'invalid'.
InputClearsError ==
    lastEvent.type = "input" => (errorText = "" /\ ~inputInvalid)

\* C16 amended: an input event that leaves a non-empty value clears the
\* inline error and removes 'invalid'; one that leaves the empty string
\* leaves the inline error and 'invalid' as they were.  aria-invalid is not
\* touched by either.
InputClearsErrorUnlessEmpty ==
    [][lastEvent'.type = "input"
         => /\ IF inputValue' # ""
               THEN errorText' = "" /\ ~inputInvalid'
               ELSE errorText' = errorText /\ inputInvalid' = inputInvalid
            /\ ariaInvalid' = ariaInvalid]_vars

InputClearsErrorWitness ==
    /\ lastEvent.type = "input"
    /\ inputValue = ""
    /\ errorText = messages.invalidEmail
    /\ inputInvalid

\* the calls that reach the network carry frame.email as the payload's Email
SentEmails ==
    {handlers[i].email : i \in {j \in DOMAIN handlers :
                                   handlers[j].pc \in {"fetch", "json", "backoff"}}}

\* C17: the Email of every payload sent to the endpoint contains none of the
\* characters < > " ' & and has at most 254 characters.
PayloadIsSanitized ==
    \A email \in SentEmails :
        /\ \A k \in 1..Len(email) : CharAt(email, k) \notin XssChars
        /\ Len(email) <= 254

HasAt(s) == \E i \in 1..Len(s) : CharAt(s, i) = "@"

HasDotAfterAt(s) ==
    \E i \in 1..Len(s) : \E j \in (i + 1)..Len(s) :
        CharAt(s, i) = "@" /\ CharAt(s, j) = "."

Blank(s) == \A k \in 1..Len(s) : CharAt(s, k) \in Whitespace

\* C18: for a value with no '@', or with no '.' after an '@', validateEmail
\* returns isValid = false and no email, with the 'required' message when the
\* value is empty or whitespace only and the invalid-format message
\* otherwise; a submit of such a value marks the input invalid and starts
\* nothing.
NoAtOrNoDotIsInvalid ==
    (~HasAt(inputValue) \/ ~HasDotAfterAt(inputValue))
        => /\ ~validationOf[inputValue].isValid
           /\ validationOf[inputValue].email = ""
           /\ validationOf[inputValue].message =
                 (IF Blank(inputValue) THEN "Email address is required"
                  ELSE "Please enter a valid email address")
           /\ handlers = <<>>
           /\ lastEvent.type # "accepted"
           /\ lastEvent.type = "invalid" => ariaInvalid = "true"

NoAtOrNoDotWitness ==
    /\ lastEvent.type = "invalid"
    /\ inputValue = "A@AA "
    /\ errorText = messages.invalidEmail
    /\ ariaInvalid = "true"

UpperChar(c) ==
    IF \E i \in 1..Len(LowerChars) : CharAt(LowerChars, i) = c
    THEN CharAt(UpperChars, CHOOSE i \in 1..Len(LowerChars) : CharAt(LowerChars, i) = c)
    ELSE c

RECURSIVE toUpperCase(_)
toUpperCase(s) ==
    IF Len(s) = 0 THEN ""
    ELSE UpperChar(CharAt(s, 1)) \o toUpperCase(SubSeq(s, 2, Len(s)))

\* the value with whitespace added around it or its letter case changed
Respelled(s) ==
    {" " \o s, s \o " ", "\t " \o s \o " \n", toUpperCase(s), toLowerCase(s),
     "  " \o toUpperCase(s) \o "\t"}

\* C19: validateEmail gives the value in the field and each respelling of it
\* the same verdict, message and email; an email it returns is the trimmed,
\* lower-cased value (no upper-case letter, no whitespace at either end),
\* validating it again returns the same result, and it is the email an
\* accepted submission carries.
NormalizationIsStable ==
    LET result == validationOf[inputValue]
    IN  /\ \A v \in Respelled(inputValue) : validateEmail(v) = result
        /\ result.isValid
              => /\ result.email = toLowerCase(trim(inputValue))
                 /\ \A k \in 1..Len(result.email) :
                       /\ CharAt(result.email, k) \notin Whitespace
                       /\ UpperChar(CharAt(result.email, k)) # CharAt(result.email, k)
                             \/ LowerChar(CharAt(result.email, k)) = CharAt(result.email, k)
                 /\ validateEmail(result.email) = result
        /\ lastEvent.type = "accepted"
              => (result.isValid /\ handlers[1].email = result.email)

NormalizationWitness ==
    /\ lastEvent.type = "accepted"
    /\ inputValue = " O'Tea@School.CA "
    /\ handlers[1].email = "o'tea@school.ca"

\* the text after the first '@' of s, "" when s has no '@'
afterAt(s) == SubSeq(s, Len(upToAt(s)) + 2, Len(s))

\* C20: the value in the field gets the domain-spelling message exactly when
\* its normalized form passes the format pattern and the text after its '@'
\* is a deny-list entry; a non-blank value that fails the format pattern gets
\* the generic invalid-format message; the two messages differ; and the
\* message shown under the field is the spelling message only in that case.
DenyListAfterFormat ==
    LET result == validationOf[inputValue]
        normalized == toLowerCase(trim(inputValue))
    IN  /\ result.message = domainSpelling
              <=> (patternEmail(normalized) /\ afterAt(normalized) \in suspiciousDomains)
        /\ (~Blank(inputValue) /\ ~patternEmail(normalized))
              => result.message = messages.invalidEmail
        /\ domainSpelling # messages.invalidEmail
        /\ errorText = domainSpelling
              => (patternEmail(normalized) /\ afterAt(normalized) \in suspiciousDomains)
        /\ (errorText # "" /\ ~Blank(inputValue) /\ ~patternEmail(normalized))
              => errorText = messages.invalidEmail

DenyListWitness ==
    /\ inputValue = "X@GMAIL.CO "
    /\ errorText = domainSpelling
    /\ ariaInvalid = "true"

\* C21: validateEmail of an empty string, of null or undefined, or of a
\* string of whitespace only returns isValid = false with the 'required'
\* message and no email, whatever else the value would fail: never the
\* invalid-format or the domain-spelling message.
BlankIsRequired ==
    (/\ ret.method = "validateEmail"
     /\ \/ arg \in {Undefined, Null}
        \/ arg.type = "string" /\ Blank(arg.str))
        => /\ ret.threw = ""
           /\ ~ret.result.isValid
           /\ ret.result.message = "Email address is required"
           /\ ret.result.message \notin {messages.invalidEmail, domainSpelling}
           /\ ret.result.email = ""

BlankIsRequiredWitness ==
    /\ ret.method = "validateEmail"
    /\ arg = Str(" \t ")
    /\ ret.result.message = messages.required

\* C22: sanitizeEmail of a string returns a string with none of the
\* characters < > " ' & and of at most 254 characters; of a value that is
\* not a string it returns the empty string.
SanitizedIsClean ==
    ret.method = "sanitizeEmail"
        => /\ ret.threw = ""
           /\ arg.type = "string"
                 => /\ \A k \in 1..Len(ret.text) : CharAt(ret.text, k) \notin XssChars
                    /\ Len(ret.text) <= 254
           /\ arg.type # "string" => ret.text = ""

SanitizedWitness ==
    /\ ret.method = "sanitizeEmail"
    /\ arg = Str(Repeat("Q&", 300))
    /\ ret.text = Repeat("q", 254)

\* C23: a submit event handled while isSubmitting is true, a pending
\* backoff delay included, is ignored: it runs no validation and leaves the
\* banner, the inline error, the input's marking and value, the loading UI,
\* retryCount, isSubmitting and the running submission as they were.
ReentrantSubmitIsIgnored ==
    [][/\ (isSubmitting /\ lastEvent'.type \in {"ignored", "invalid", "accepted"})
             => lastEvent'.type = "ignored"
       /\ lastEvent'.type = "ignored"
             => /\ isSubmitting
                /\ UNCHANGED <<msgClass, msgText, errorText, inputInvalid, ariaInvalid,
                               inputValue, focused, debounce, btnLoading, btnDisabled,
                               ariaBusy, btnLabel, retryCount, isSubmitting, handlers,
                               hideTimers, focusTimers, fetchCalls, lastOutcome>>]_vars

ReentrantSubmitWitness ==
    /\ lastEvent.type = "ignored"
    /\ \E i \in DOMAIN handlers : handlers[i].pc = "backoff" /\ retryCount = 2
    /\ inputValue = "test@"
    /\ ~inputInvalid
    /\ errorText = ""

\* C24: a call aborted by the timeout is never retried, whatever retry
\* budget remains: the submission ends with that call, no call follows it and
\* retryCount is unchanged.
TimeoutIsTerminal ==
    [][(/\ lastEvent'.type \in {"failed", "error"}
        /\ lastEvent'.frame.caught \in TimeoutFailures)
         => /\ lastEvent'.type = "error"
            /\ retryCount' = retryCount
            /\ handlers' = <<>>
            /\ ~isSubmitting'
            /\ lastEvent'.frame.calls = lastEvent'.frame.fails
            /\ msgClass' = {"error", "show"}]_vars

TimeoutIsTerminalWitness ==
    /\ lastEvent.type = "error"
    /\ Done.caught = TimeoutFailure
    /\ Done.calls = 1
    /\ retryCount = 0
    /\ handlers = <<>>

\* C25: retryCount stays in 0..3; it changes only by 1 up, as a retry is
\* scheduled, and to 0, as a submission succeeds: a terminal error leaves it
\* as it is.  So retryCount is the number of retries since the last success:
\* the retries of the running submission and those it started with, at most
\* 3 together, and a submission that starts with retryCount = 3 ends with
\* its first call.
RetryBudgetIsShared ==
    [][/\ retryCount' \in 0..3
       /\ retryCount' # retryCount
             => \/ retryCount' = retryCount + 1 /\ lastEvent'.type = "failed"
                \/ retryCount' = 0 /\ lastEvent'.type = "success"
       /\ lastEvent'.type = "error" => retryCount' = retryCount
       /\ \A i \in DOMAIN handlers' :
             retryCount' = handlers'[i].rc0
                             + (IF handlers'[i].pc = "backoff" THEN handlers'[i].calls
                                ELSE handlers'[i].calls - 1)
       /\ (lastEvent'.type \in {"failed", "error"} /\ lastEvent'.frame.rc0 = 3)
             => (lastEvent'.type = "error" /\ lastEvent'.frame.calls = 1)]_vars

RetryBudgetWitness ==
    /\ lastEvent.type = "error"
    /\ Done.rc0 = 3
    /\ Done.prev = "error"
    /\ Done.calls = 1
    /\ networkClassOf[Done.caught]
    /\ retryCount = 3

\* C26: right after a submit with an input value that fails validateEmail
\* has been handled, the inline error shows the validation message and the
\* input is marked invalid (class 'invalid', aria-invalid 'true'), whether
\* the input had the focus (Enter) or not (click).
InvalidSubmitShowsError ==
    lastEvent.type = "invalid"
        => /\ errorText = validationOf[inputValue].message
           /\ inputInvalid
           /\ ariaInvalid = "true"

\* the trimmed, lower-cased form of the texts the user types
normalizedOf == [v \in InputTexts |-> toLowerCase(trim(v))]

\* C27: the Email a submission carries is the trimmed, lower-cased value the
\* input had when the submit was accepted, and every step of the submission
\* (each call, each failure, each backoff and retry, its end) leaves that
\* Email as it is, whatever the input holds by then.
SameEmailOnEveryCall ==
    [][/\ lastEvent'.type = "accepted"
             => handlers'[Len(handlers')].email = normalizedOf[inputValue]
       /\ Len(handlers') = Len(handlers)
             => \A i \in DOMAIN handlers : handlers'[i].email = handlers[i].email
       /\ lastEvent'.type \in {"failed", "retry", "success", "error"}
             => \E i \in DOMAIN handlers : handlers[i].email = lastEvent'.frame.email]_vars

SameEmailWitness ==
    /\ lastEvent.type = "retry"
    /\ inputValue = "x@gmail.co"
    /\ \E i \in DOMAIN handlers :
          /\ handlers[i].pc = "fetch"
          /\ handlers[i].calls = 3
          /\ handlers[i].email = "a@b.io"

\* does the lower-cased text hold one of the eight keywords as a substring
HoldsKeyword(text) ==
    LET lower == toLowerCase(text)
    IN  \E k \in {"network", "fetch", "connection", "timeout", "dns", "offline",
                  "cors", "blocked"} :
            \E i \in 1..Len(lower) :
                i + Len(k) - 1 <= Len(lower) /\ SubSeq(lower, i, i + Len(k) - 1) = k

holdsKeywordOf == [e \in Errors |-> HoldsKeyword(e.message)]

\* C28: an error is network-class exactly when its lower-cased message holds
\* one of the eight keywords as a substring, and an error with an empty or
\* missing message is not; with an auth token, a failed call that was not
\* aborted is retried exactly when its error's message holds a keyword and
\* retryCount was below 3, also when the message came from the server.
NetworkClassIsKeywordMatch ==
    /\ \A e \in Errors : networkClassOf[e] = holdsKeywordOf[e]
    /\ ~networkClassOf[noMessageError]
    /\ (/\ lastEvent.type \in {"failed", "error"}
        /\ Live
        /\ ~isAbort(Done.caught))
          => (lastEvent.type = "failed"
                 <=> (holdsKeywordOf[Done.caught] /\ Done.rc0 + Done.fails - 1 < 3))

NetworkClassWitness ==
    /\ lastEvent.type = "failed"
    /\ Done.pc = "json"
    /\ Done.resp.message = "Upstream Connection refused"
    /\ Done.caught.message = "Upstream Connection refused"
    /\ retryCount = 1

\* C29: without an auth token a simulated failure ends the submission,
\* although its message is network-class: the simulated call was the only
\* one, no retry is scheduled, retryCount is unchanged and the banner shows
\* the network-error message.
SimulatedFailureIsTerminal ==
    [][(authToken = "" /\ lastEvent'.type \in {"failed", "error"})
         => /\ lastEvent'.type = "error"
            /\ lastEvent'.error.message = "Simulated network error"
            /\ networkClassOf[lastEvent'.error]
            /\ lastEvent'.frame.calls = 1
            /\ retryCount' = retryCount
            /\ handlers' = <<>>
            /\ ~isSubmitting'
            /\ msgClass' = {"error", "show"}
            /\ msgText' = messages.networkError]_vars

SimulatedFailureWitness ==
    /\ authToken = ""
    /\ lastEvent.type = "error"
    /\ Done.prev = "error"
    /\ Done.calls = 1
    /\ retryCount = 0
    /\ msgText = messages.networkError

\* C30: between handlers the loading UI mirrors isSubmitting: the flag is
\* true iff the button is disabled, iff it carries 'loading', iff aria-busy
\* is 'true', iff the label is 'Submitting...'; all of it holds while a
\* submission is running, its backoff delays included.
LoadingMirrorsFlag ==
    /\ isSubmitting <=> btnDisabled
    /\ isSubmitting <=> btnLoading
    /\ isSubmitting <=> ariaBusy = "true"
    /\ isSubmitting <=> btnLabel = "Submitting..."
    /\ isSubmitting <=> handlers # <<>>
    /\ \A i \in DOMAIN handlers :
          handlers[i].pc = "backoff" => (isSubmitting /\ btnDisabled /\ ariaBusy = "true")

LoadingMirrorsWitness ==
    /\ \E i \in DOMAIN handlers : handlers[i].pc = "backoff" /\ handlers[i].delay = 3000
    /\ isSubmitting
    /\ btnDisabled
    /\ btnLoading
    /\ ariaBusy = "true"
    /\ btnLabel = "Submitting..."

\* C31: a focus event on the input leaves no delayed validation pending, the
\* inline error empty and the input without class 'invalid'; from then on a
\* delayed validation becomes pending only by an 'input' event, and one
\* fires only if it was pending.
FocusCancelsValidation ==
    [][/\ (~focused /\ focused')
            => (debounce' = <<>> /\ errorText' = "" /\ ~inputInvalid')
       /\ (debounce = <<>> /\ debounce' # <<>>) => lastEvent'.type = "input"
       /\ lastEvent'.type = "debounce"
            => (debounce # <<>> /\ Len(debounce') = Len(debounce) - 1)]_vars

\* the field was marked invalid, then gained focus: the class and the
\* message are gone, no timer is pending, aria-invalid still says 'true'
FocusCancelsWitness ==
    /\ focused
    /\ inputValue = "test@"
    /\ ariaInvalid = "true"
    /\ ~inputInvalid
    /\ errorText = ""
    /\ debounce = <<>>
    /\ lastEvent = Other

\* C32: the input carries class 'invalid' iff its aria-invalid attribute is
\* 'true', in every reachable state.
MarkersAgree == inputInvalid <=> ariaInvalid = "true"

\* C33: a delayed validation that fires while the value has 3 characters or
\* fewer changes neither the inline error nor the input's invalid marking;
\* with more than 3 characters it validates the value.
ShortValueIsNotValidated ==
    [][lastEvent'.type = "debounce"
          => IF Len(inputValue) <= 3
             THEN /\ errorText' = errorText
                  /\ inputInvalid' = inputInvalid
                  /\ ariaInvalid' = ariaInvalid
             ELSE LET result == validationOf[inputValue]
                  IN  /\ inputInvalid' = ~result.isValid
                      /\ ariaInvalid' = (IF result.isValid THEN "false" ELSE "true")
                      /\ errorText' = (IF result.isValid THEN errorText
                                                         ELSE result.message)]_vars

\* the timer has fired on a three-character value in a field that an earlier
\* blur had marked: nothing was validated, the stale attribute is still there
ShortValueWitness ==
    /\ lastEvent.type = "debounce"
    /\ Len(inputValue) = 3
    /\ focused
    /\ ariaInvalid = "true"
    /\ ~inputInvalid
    /\ errorText = ""

\* C34: sanitizeEmail is idempotent: applied to a string it returned, it
\* returns that string again.
SanitizeIsIdempotent ==
    [][(ret.method = "sanitizeEmail" /\ arg.type = "string"
           /\ arg' = Str(ret.text) /\ ret'.method = "sanitizeEmail")
          => ret'.text = ret.text]_vars

\* C35: after destroy() the slider never advances again: no interval timer
\* is running, and none is started later by the pending start-up timer or by
\* a mouseenter or mouseleave on the container.
DestroyStopsSlider == destroyed => intervals = {}

\* C36: at most one interval timer is running at a time, the one
\* this.interval holds; and while isPaused is true the displayed slide
\* changes only by an explicit selection (an indicator or goToSlide), never
\* by a tick of the timer.
OneIntervalAndPauseHolds ==
    [][/\ Cardinality(intervals) <= 1 /\ Cardinality(intervals') <= 1
       /\ intervals' \subseteq {heroSlider'.interval}
       /\ (heroSlider.isPaused /\ sliderEvent'.op = "tick")
             => /\ UNCHANGED <<slides, indicators>>
                /\ heroSlider'.currentSlide = heroSlider.currentSlide
       /\ (heroSlider.isPaused
              /\ (slides' # slides \/ heroSlider'.currentSlide # heroSlider.currentSlide))
             => sliderEvent'.op \in {"indicator", "goToSlide"}]_vars

\* the start-up timer expired while the pointer was over the container: the
\* timer runs although the slider is paused, and its tick has shown nothing new
OneIntervalWitness ==
    /\ sliderEvent.op = "tick"
    /\ heroSlider.isPaused
    /\ pointerInside
    /\ ~startTimer
    /\ intervals = {heroSlider.interval}
    /\ heroSlider.totalSlides = 3
    /\ heroSlider.currentSlide = 0
    /\ slides[0].active

ActiveSlides == {i \in DOMAIN slides : slides[i].active}

\* C37: with at least one slide, 0 <= currentSlide < totalSlides and exactly
\* the slide currentSlide is active; nextSlide (called, or run by the timer)
\* advances to (currentSlide + 1) mod totalSlides; goToSlide shows the slide
\* of an index in range and changes nothing for an index out of range.
SlideIndexStaysValid ==
    [][heroSlider.totalSlides >= 1
          => /\ heroSlider.currentSlide \in 0..(heroSlider.totalSlides - 1)
             /\ heroSlider'.currentSlide \in 0..(heroSlider.totalSlides - 1)
             /\ heroSlider'.totalSlides = heroSlider.totalSlides
             /\ ActiveSlides = {heroSlider.currentSlide}
             /\ ActiveSlides' = {heroSlider'.currentSlide}
             /\ (sliderEvent'.op \in {"nextSlide", "tick"} /\ ~heroSlider.isPaused)
                   => heroSlider'.currentSlide
                         = (heroSlider.currentSlide + 1) % heroSlider.totalSlides
             /\ sliderEvent'.op = "goToSlide"
                   => IF sliderEvent'.index \in 0..(heroSlider.totalSlides - 1)
                      THEN heroSlider'.currentSlide = sliderEvent'.index
                      ELSE UNCHANGED <<heroSlider, slides, indicators>>]_vars

\* nextSlide was called on the last of three slides, with no timer started
SlideIndexWitness ==
    /\ sliderEvent.op = "nextSlide"
    /\ heroSlider.totalSlides = 3
    /\ ~heroSlider.isPaused
    /\ startTimer
    /\ intervals = {}
    /\ heroSlider.currentSlide = 0
    /\ ActiveSlides = {0}

====
